---- MODULE Spec2Model ----
(***************************************************************************)
(* Model of fill_latent.py: the path transformer make_latent_path, the     *)
(* column filler fill_latent and the command-line driver main.             *)
(*                                                                         *)
(* A Python str is a sequence of one-character strings.  A table cell is   *)
(* a record: a str, the float NaN pandas reads for an empty cell, or the   *)
(* pd.NA scalar that fill_latent writes when it creates the column.        *)
(***************************************************************************)
EXTENDS Integers, Sequences, FiniteSets, TLC

VARIABLES
    img_path,   \* make_latent_path: the argument of the call
    ret,        \* make_latent_path: <<>> before the call, <<outcome>> after
    tbl,        \* fill_latent: the DataFrame df (mutated in place)
    tbl0,       \* fill_latent: df as it was when the latest call began
    mask,       \* fill_latent: mask_missing of the latest call
    fillret,    \* fill_latent: the outcome of each call so far, in order
    pc,         \* main: position in main
    args,       \* main: the parsed arguments (inp, out)
    fs,         \* main: the files, location -> <<>> (none) or <<table>>
    fs0,        \* main: the files as they were when main started
    df,         \* main: the local df, <<>> until read_csv returned
    stdout,     \* main: the lines printed
    stderr,     \* main: the diagnostic written by sys.exit
    status,     \* main: "running", "returned", "SystemExit" or an exception
    exitcode,   \* main: <<>> while running, then <<the process's exit code>>
    out,        \* main: the local out, <<>> until it is computed
    events      \* main: the steps taken so far, in order

vars == <<img_path, ret, tbl, tbl0, mask, fillret,
          pc, args, fs, fs0, df, stdout, stderr, status, exitcode, out,
          events>>

pathVars == <<img_path, ret>>
fillVars == <<tbl, tbl0, mask, fillret>>
mainVars ==
    <<pc, args, fs, fs0, df, stdout, stderr, status, exitcode, out, events>>

(***************************************************************************)
(* Bounds of the model.                                                    *)
(***************************************************************************)
MaxSegs == 3    \* a path given to make_latent_path is at most MaxSegs segments
MaxRows == 2    \* rows of a table
MaxCalls == 2   \* successive calls of fill_latent on one DataFrame

(***************************************************************************)
(* Characters.  DotlessI stands for U+0131, which re.IGNORECASE matches    *)
(* against the pattern letter i.                                           *)
(***************************************************************************)
NL == "\n"
DotlessI == "U+0131"

Str(s) == [kind |-> "str", chars |-> s]
NaN == [kind |-> "nan", chars |-> <<>>]
NA == [kind |-> "NA", chars |-> <<>>]

(***************************************************************************)
(* _RE_EXT = re.compile(r"\.nii(?:\.gz)?$", re.IGNORECASE)                 *)
(***************************************************************************)
ReCore == <<".", "n", "i", "i">>
ReGz == <<".", "g", "z">>
Replacement == <<"_", "l", "a", "t", "e", "n", "t", ".", "n", "p", "z">>

\* The characters a pattern character matches under re.IGNORECASE.
IgnoreCase(p) ==
    CASE p = "n" -> {"n", "N"}
      [] p = "i" -> {"i", "I", DotlessI}
      [] p = "g" -> {"g", "G"}
      [] p = "z" -> {"z", "Z"}
      [] OTHER -> {p}

\* The literal lit matches s at position p (1-based).
LitAt(s, p, lit) ==
    /\ p >= 1
    /\ p + Len(lit) - 1 <= Len(s)
    /\ \A k \in 1..Len(lit) : s[p + k - 1] \in IgnoreCase(lit[k])

\* "$" without re.MULTILINE: the end of the string, or just before a newline
\* that is the last character.  q is the position of the next character.
Dollar(s, q) ==
    \/ q = Len(s) + 1
    \/ q = Len(s) /\ s[q] = NL

\* Length of the match of the pattern that starts at p, 0 when there is none.
\* The optional group is greedy and is given up when "$" fails after it.
MatchLenNoGroup(s, p) ==
    IF LitAt(s, p, ReCore) /\ Dollar(s, p + Len(ReCore)) THEN Len(ReCore)
    ELSE IF LitAt(s, p, ReGz) /\ Dollar(s, p + Len(ReGz)) THEN Len(ReGz)
    ELSE 0
MatchLenAt(s, p) ==
    IF ~LitAt(s, p, ReCore) THEN 0
    ELSE IF /\ LitAt(s, p + Len(ReCore), ReGz)
            /\ Dollar(s, p + Len(ReCore) + Len(ReGz))
         THEN Len(ReCore) + Len(ReGz)
    ELSE IF Dollar(s, p + Len(ReCore)) THEN Len(ReCore)
    ELSE 0

\* _RE_EXT.search(s) is not None
ReSearch(s) == \E p \in 1..Len(s) : MatchLenAt(s, p) > 0

\* _RE_EXT.sub(repl, s): every non-overlapping match, left to right.
RECURSIVE SubFrom(_, _, _)
SubFrom(repl, s, p) ==
    IF p > Len(s) THEN <<>>
    ELSE IF MatchLenAt(s, p) > 0
         THEN repl \o SubFrom(repl, s, p + MatchLenAt(s, p))
         ELSE <<s[p]>> \o SubFrom(repl, s, p + 1)
ReSub(repl, s) == SubFrom(repl, s, 1)

(***************************************************************************)
(* make_latent_path(img_path).  The outcome is "ok" with the value         *)
(* returned, or the exception raised: re's search raises TypeError for an  *)
(* argument that is not a str.                                             *)
(***************************************************************************)
Returned(v) == [status |-> "ok", val |-> v]
Raised(e) == [status |-> e, val |-> <<>>]

make_latent_path(v) ==
    IF v.kind # "str" THEN Raised("TypeError")
    ELSE IF ~ReSearch(v.chars) THEN Raised("ValueError")
    ELSE Returned(ReSub(Replacement, v.chars))

(***************************************************************************)
(* The paths given to make_latent_path: up to MaxSegs segments.            *)
(***************************************************************************)
Segments ==
    { <<"a">>, <<" ">>, <<NL>>,
      <<".", "n", "i", "i">>, <<".", "N", "i", "I">>,
      <<".", "n", DotlessI, "i">>,
      <<".", "g", "z">>, <<".", "G", "z">> }

RECURSIVE PathsUpTo(_)
PathsUpTo(n) ==
    IF n = 0 THEN {<<>>}
    ELSE LET prev == PathsUpTo(n - 1)
         IN  prev \cup {p \o seg : p \in prev, seg \in Segments}

Idle == <<>>

PathIdle == img_path = Str(<<>>) /\ ret = <<>>
FillIdle == tbl = Idle /\ tbl0 = Idle /\ mask = <<>> /\ fillret = <<>>
MainIdle ==
    /\ pc = "idle" /\ args = Idle /\ fs = Idle /\ fs0 = Idle /\ df = <<>>
    /\ stdout = <<>> /\ stderr = <<>> /\ status = "idle" /\ events = <<>>
    /\ exitcode = <<>> /\ out = <<>>

InitPath ==
    /\ img_path \in {Str(p) : p \in PathsUpTo(MaxSegs)} \cup {NaN}
    /\ ret = <<>>
    /\ FillIdle /\ MainIdle

\* One call of make_latent_path(img_path).
CallPath ==
    /\ ret = <<>>
    /\ ret' = <<make_latent_path(img_path)>>
    /\ UNCHANGED <<img_path, fillVars, mainVars>>

NextPath == CallPath
SpecPath == InitPath /\ [][NextPath]_vars


(***************************************************************************)
(* Tables.  A DataFrame is its columns, in order, and its rows, in order;  *)
(* a row maps each column to a cell.  read_csv(dtype=str) gives a str or   *)
(* NaN in every cell and numbers the rows 0..n-1, so a row is identified   *)
(* by its position.                                                        *)
(***************************************************************************)
Range(f) == {f[i] : i \in DOMAIN f}

ImageVals ==
    { Str(<<"a", ".", "n", "i", "i">>),
      Str(<<"b", ".", "N", "I", "I", ".", "g", "z">>),
      Str(<<"c", ".", "n", "i", "i", NL>>),
      Str(<<"d", ".", "g", "z">>),
      NaN }
LatentVals ==
    { NaN, Str(<<>>), Str(<<" ", NL>>), Str(<<"x", ".", "n", "p", "z">>) }
SubjectVals == { Str(<<"s", "1">>) }

ColsFull == <<"subject", "image_path", "latent_path">>
ColsNoLatent == <<"subject", "image_path">>
ColsNoImage == <<"subject", "latent_path">>

RowsOver(cols) ==
    IF cols = ColsFull
    THEN [subject : SubjectVals, image_path : ImageVals, latent_path : LatentVals]
    ELSE IF cols = ColsNoLatent
    THEN [subject : SubjectVals, image_path : ImageVals]
    ELSE [subject : SubjectVals, latent_path : LatentVals]

ColumnSets == {ColsFull, ColsNoLatent, ColsNoImage}

\* t is a table of at most MaxRows rows.
IsTable(t) ==
    \E c \in ColumnSets, k \in 0..MaxRows :
       \E r \in [1..k -> RowsOver(c)] : t = [cols |-> c, rows |-> r]

HasCol(t, c) == c \in Range(t.cols)

(***************************************************************************)
(* fill_latent(df)                                                         *)
(***************************************************************************)
\* Series.isna()
isna(v) == v.kind \in {"nan", "NA"}

\* Series.astype(str): str() of the cell
astype_str(v) ==
    CASE v.kind = "str" -> v.chars
      [] v.kind = "nan" -> <<"n", "a", "n">>
      [] v.kind = "NA" -> <<"<", "N", "A", ">">>

\* str.strip(): whitespace removed at both ends
IsSpace(c) == c \in {" ", NL, "\t"}
RECURSIVE LStrip(_)
LStrip(s) == IF s = <<>> \/ ~IsSpace(Head(s)) THEN s ELSE LStrip(Tail(s))
RECURSIVE RStrip(_)
RStrip(s) ==
    IF s = <<>> \/ ~IsSpace(s[Len(s)]) THEN s
    ELSE RStrip(SubSeq(s, 1, Len(s) - 1))
Strip(s) == RStrip(LStrip(s))

\* if "latent_path" not in df.columns: df["latent_path"] = pd.NA
EnsureColumn(t) ==
    IF HasCol(t, "latent_path") THEN t
    ELSE [cols |-> Append(t.cols, "latent_path"),
          rows |-> [i \in DOMAIN t.rows |->
                      [c \in DOMAIN t.rows[i] \cup {"latent_path"} |->
                          IF c = "latent_path" THEN NA ELSE t.rows[i][c]]]]

\* mask_missing = isna() | (astype(str).str.strip() == "")
MaskAll(t) == [i \in DOMAIN t.rows |-> TRUE]
MaskNoNa(t) ==
    [i \in DOMAIN t.rows |-> Strip(astype_str(t.rows[i].latent_path)) = <<>>]
MaskNoStrip(t) ==
    [i \in DOMAIN t.rows |->
        \/ isna(t.rows[i].latent_path)
        \/ astype_str(t.rows[i].latent_path) = <<>>]
mask_missing(t) ==
    [i \in DOMAIN t.rows |->
        \/ isna(t.rows[i].latent_path)
        \/ Strip(astype_str(t.rows[i].latent_path)) = <<>>]

Min(S) == CHOOSE x \in S : \A y \in S : x <= y

\* The outcome of fill_latent: its status ("ok" or the exception raised), df
\* as the call leaves it, and the mask it computed.  Series.apply calls
\* make_latent_path on the selected rows in order and the first exception
\* leaves it before anything is assigned.
fill_latent_skip(t) ==
    LET t1 == EnsureColumn(t)
        m == mask_missing(t1)
        res == [i \in DOMAIN t1.rows |-> make_latent_path(t1.rows[i].image_path)]
    IN  [status |-> "ok",
         df |-> [t1 EXCEPT !.rows =
                   [i \in DOMAIN t1.rows |->
                      IF m[i] /\ res[i].status = "ok"
                      THEN [t1.rows[i] EXCEPT !.latent_path = Str(res[i].val)]
                      ELSE t1.rows[i]]],
         mask |-> m]
fill_latent(t) ==
    LET t1 == EnsureColumn(t)
        m == mask_missing(t1)
    IN  IF ~HasCol(t1, "image_path")
        THEN [status |-> "KeyError", df |-> t1, mask |-> m]
        ELSE
        LET res == [i \in DOMAIN t1.rows |->
                       make_latent_path(t1.rows[i].image_path)]
            failing == {i \in DOMAIN t1.rows : m[i] /\ res[i].status # "ok"}
        IN  IF failing # {}
            THEN [status |-> res[Min(failing)].status, df |-> t1, mask |-> m]
            ELSE [status |-> "ok",
                  df |-> [t1 EXCEPT !.rows =
                            [i \in DOMAIN t1.rows |->
                               IF m[i]
                               THEN [t1.rows[i] EXCEPT
                                       !.latent_path = Str(res[i].val)]
                               ELSE t1.rows[i]]],
                  mask |-> m]

InitFill ==
    /\ IsTable(tbl)
    /\ tbl0 = tbl
    /\ mask = <<>>
    /\ fillret = <<>>
    /\ PathIdle /\ MainIdle

\* One call fill_latent(df) on the DataFrame, which it mutates in place.
CallFill ==
    /\ Len(fillret) < MaxCalls
    /\ LET r == fill_latent(tbl)
       IN  /\ tbl0' = tbl
           /\ tbl' = r.df
           /\ mask' = r.mask
           /\ fillret' = Append(fillret, r.status)
    /\ UNCHANGED <<pathVars, mainVars>>

NextFill == CallFill
SpecFill == InitFill /\ [][NextFill]_vars


(***************************************************************************)
(* main(argv).  args is the Namespace parse_args returns: inp is required, *)
(* out is <<>> when --out is not given and <<its value>> when it is.       *)
(***************************************************************************)
Locations == {"in.csv", "out.csv"}
OutArgs == { <<>>, <<"">>, <<"out.csv">> }
ColumnDiagnostic == "CSV must contain an 'image_path' column."

\* A file that is at the output location before main runs.
OldOut ==
    [cols |-> ColsFull,
     rows |-> << [subject |-> Str(<<"s", "0">>),
                  image_path |-> Str(<<"o", ".", "n", "i", "i">>),
                  latent_path |-> Str(<<"o", ".", "n", "p", "z">>)] >>]

InitMain ==
    /\ pc = "start"
    /\ args \in [inp : {"in.csv"}, out : OutArgs]
    /\ \E o \in {<<>>, <<OldOut>>} :
          \/ fs = [l \in Locations |-> IF l = "in.csv" THEN <<>> ELSE o]
          \/ \E c \in ColumnSets, k \in 0..MaxRows :
                \E r \in [1..k -> RowsOver(c)] :
                   fs = [l \in Locations |->
                           IF l = "in.csv" THEN <<[cols |-> c, rows |-> r]>> ELSE o]
    /\ fs0 = fs
    /\ df = <<>>
    /\ out = <<>>
    /\ stdout = <<>>
    /\ stderr = <<>>
    /\ status = "running"
    /\ exitcode = <<>>
    /\ events = <<>>
    /\ PathIdle /\ FillIdle

\* An exception that nothing catches ends the process with exit code 1.
Raise(e) ==
    /\ pc' = "raised"
    /\ status' = e
    /\ exitcode' = <<1>>

\* inp = Path(args.inp); out = Path(args.out) if args.out else inp
ParseArgs ==
    /\ pc = "start"
    /\ out' = IF args.out # <<>> /\ args.out[1] # ""
              THEN <<args.out[1]>> ELSE <<args.inp>>
    /\ pc' = "read"
    /\ UNCHANGED <<args, fs, fs0, df, stdout, stderr, status, exitcode, events>>
    /\ UNCHANGED <<pathVars, fillVars>>

\* df = pd.read_csv(inp, dtype=str)
ReadCsv ==
    /\ pc = "read"
    /\ fs[args.inp] # <<>>
    /\ df' = fs[args.inp]
    /\ events' = Append(events, "load")
    /\ pc' = "check"
    /\ UNCHANGED <<args, fs, fs0, out, stdout, stderr, status, exitcode>>
    /\ UNCHANGED <<pathVars, fillVars>>

ReadCsvRaises ==
    /\ pc = "read"
    /\ fs[args.inp] = <<>>
    /\ Raise("FileNotFoundError")
    /\ UNCHANGED <<args, fs, fs0, df, out, stdout, stderr, events>>
    /\ UNCHANGED <<pathVars, fillVars>>

\* if "image_path" not in df.columns: sys.exit("CSV must contain ...")
\* sys.exit with a string writes it to stderr and exits with code 1.
CheckColumnIgnored ==
    /\ pc = "check"
    /\ ~HasCol(df[1], "image_path")
    /\ events' = Append(events, "check")
    /\ pc' = "fill"
    /\ UNCHANGED <<args, fs, fs0, df, out, stdout, stderr, status, exitcode>>
    /\ UNCHANGED <<pathVars, fillVars>>
CheckColumnExits ==
    /\ pc = "check"
    /\ ~HasCol(df[1], "image_path")
    /\ stderr' = Append(stderr, ColumnDiagnostic)
    /\ status' = "SystemExit"
    /\ exitcode' = <<1>>
    /\ events' = Append(events, "check")
    /\ pc' = "exited"
    /\ UNCHANGED <<args, fs, fs0, df, out, stdout>>
    /\ UNCHANGED <<pathVars, fillVars>>

CheckColumnPasses ==
    /\ pc = "check"
    /\ HasCol(df[1], "image_path")
    /\ events' = Append(events, "check")
    /\ pc' = "fill"
    /\ UNCHANGED <<args, fs, fs0, df, out, stdout, stderr, status, exitcode>>
    /\ UNCHANGED <<pathVars, fillVars>>

\* df = fill_latent(df)
FillReturns ==
    /\ pc = "fill"
    /\ fill_latent(df[1]).status = "ok"
    /\ df' = <<fill_latent(df[1]).df>>
    /\ events' = Append(events, "fill")
    /\ pc' = "write"
    /\ UNCHANGED <<args, fs, fs0, out, stdout, stderr, status, exitcode>>
    /\ UNCHANGED <<pathVars, fillVars>>

FillRaisesSwallowed ==
    /\ pc = "fill"
    /\ fill_latent(df[1]).status # "ok"
    /\ df' = <<fill_latent(df[1]).df>>
    /\ events' = Append(events, "fill")
    /\ pc' = "write"
    /\ UNCHANGED <<args, fs, fs0, out, stdout, stderr, status, exitcode>>
    /\ UNCHANGED <<pathVars, fillVars>>
FillRaises ==
    /\ pc = "fill"
    /\ fill_latent(df[1]).status # "ok"
    /\ df' = <<fill_latent(df[1]).df>>
    /\ Raise(fill_latent(df[1]).status)
    /\ events' = Append(events, "fill")
    /\ UNCHANGED <<args, fs, fs0, out, stdout, stderr>>
    /\ UNCHANGED <<pathVars, fillVars>>

\* df.to_csv(out, index=False)
ToCsv ==
    /\ pc = "write"
    /\ fs' = [fs EXCEPT ![out[1]] = df]
    /\ events' = Append(events, "persist")
    /\ pc' = "print"
    /\ UNCHANGED <<args, fs0, df, out, stdout, stderr, status, exitcode>>
    /\ UNCHANGED <<pathVars, fillVars>>

\* print(f"Latent paths written ... {out}"), then main returns
PrintConfirmation ==
    /\ pc = "print"
    /\ stdout' = Append(stdout, out[1])
    /\ events' = Append(events, "confirm")
    /\ status' = "returned"
    /\ exitcode' = <<0>>
    /\ pc' = "done"
    /\ UNCHANGED <<args, fs, fs0, df, out, stderr>>
    /\ UNCHANGED <<pathVars, fillVars>>

Next ==
    \/ ParseArgs
    \/ ReadCsv
    \/ ReadCsvRaises
    \/ CheckColumnExits
    \/ CheckColumnPasses
    \/ FillReturns
    \/ FillRaises
    \/ ToCsv
    \/ PrintConfirmation

Spec == InitMain /\ [][Next]_vars


(***************************************************************************)
(* What the claims speak of.                                               *)
(***************************************************************************)
\* Case-insensitive comparison as the pattern's flag makes it.
LowerChar(c) ==
    CASE c = "N" -> "n"
      [] c = "I" \/ c = DotlessI -> "i"
      [] c = "G" -> "g"
      [] c = "Z" -> "z"
      [] OTHER -> c
Lowered(s) == [i \in 1..Len(s) |-> LowerChar(s[i])]
EndsWith(s, suf) ==
    /\ Len(s) >= Len(suf)
    /\ SubSeq(s, Len(s) - Len(suf) + 1, Len(s)) = suf
DotNii == <<".", "n", "i", "i">>
DotNiiGz == <<".", "n", "i", "i", ".", "g", "z">>

\* Length of the trailing marker of s, 0 when s does not end with one.
MarkerLen(s) ==
    IF EndsWith(Lowered(s), DotNiiGz) THEN Len(DotNiiGz)
    ELSE IF EndsWith(Lowered(s), DotNii) THEN Len(DotNii)
    ELSE 0

Last(q) == q[Len(q)]

\* A cell that is unset, or a str that is empty once trimmed.
IsMissing(v) == v.kind # "str" \/ \A i \in 1..Len(v.chars) : IsSpace(v.chars[i])

\* The latent_path of row i when the latest call of fill_latent began.
PriorLatent(i) ==
    IF HasCol(tbl0, "latent_path") THEN tbl0.rows[i].latent_path ELSE NA

\* The value fill_latent is to write in row i.
Derived(i) == make_latent_path(tbl0.rows[i].image_path)

(***************************************************************************)
(* C1: for every string s that ends, case-insensitively, with ".nii" or    *)
(* ".nii.gz", make_latent_path(s) returns s with that whole trailing       *)
(* marker removed and "_latent.npz" put in its place, every character      *)
(* before the marker kept.                                                 *)
(***************************************************************************)
C1_SuffixSwap ==
    (ret # <<>> /\ img_path.kind = "str" /\ MarkerLen(img_path.chars) > 0)
    => ret[1] = Returned(SubSeq(img_path.chars, 1,
                                Len(img_path.chars) - MarkerLen(img_path.chars))
                         \o Replacement)

C1_Witness ==
    /\ ret # <<>>
    /\ img_path.kind = "str"
    /\ MarkerLen(img_path.chars) = Len(DotNiiGz)
    /\ Len(img_path.chars) > Len(DotNiiGz)
    /\ img_path.chars # Lowered(img_path.chars)
    /\ ret[1].status = "ok"

(***************************************************************************)
(* C2: for every string that does not end, case-insensitively, with        *)
(* ".nii" or ".nii.gz" (the empty string and a string with a newline after *)
(* the marker included), make_latent_path raises ValueError.               *)
(***************************************************************************)
C2_NoMarkerRaises ==
    (ret # <<>> /\ img_path.kind = "str" /\ MarkerLen(img_path.chars) = 0)
    => ret[1] = Raised("ValueError")

(***************************************************************************)
(* C3: after fill_latent returns, the latent_path column exists and every  *)
(* row's latent_path is a non-empty string that is its value before the    *)
(* call or make_latent_path of that row's image_path.                      *)
(***************************************************************************)
C3_FilledOrKept ==
    (fillret # <<>> /\ Last(fillret) = "ok")
    => /\ HasCol(tbl, "latent_path")
       /\ Len(tbl.rows) = Len(tbl0.rows)
       /\ \A i \in DOMAIN tbl.rows :
            LET v == tbl.rows[i].latent_path
            IN  /\ v.kind = "str"
                /\ v.chars # <<>>
                /\ \/ HasCol(tbl0, "latent_path") /\ v = tbl0.rows[i].latent_path
                   \/ Derived(i).status = "ok" /\ v = Str(Derived(i).val)

C3_Witness ==
    /\ fillret = <<"ok">>
    /\ HasCol(tbl0, "latent_path")
    /\ \E i \in DOMAIN tbl.rows : tbl.rows[i].latent_path = tbl0.rows[i].latent_path
    /\ \E i \in DOMAIN tbl.rows : tbl.rows[i].latent_path # tbl0.rows[i].latent_path

(***************************************************************************)
(* C4: fill_latent leaves unchanged the latent_path of every row whose     *)
(* latent_path was set and not blank, even when it differs from            *)
(* make_latent_path(image_path), and changes no image_path, no other       *)
(* column, and neither the number nor the order of the rows.               *)
(***************************************************************************)
C4_Frame ==
    fillret # <<>>
    => /\ Len(tbl.rows) = Len(tbl0.rows)
       /\ SubSeq(tbl.cols, 1, Len(tbl0.cols)) = tbl0.cols
       /\ Range(tbl.cols) = Range(tbl0.cols) \cup {"latent_path"}
       /\ \A i \in DOMAIN tbl0.rows :
            /\ \A c \in Range(tbl0.cols) \ {"latent_path"} :
                 tbl.rows[i][c] = tbl0.rows[i][c]
            /\ (HasCol(tbl0, "latent_path") /\ ~IsMissing(tbl0.rows[i].latent_path))
               => tbl.rows[i].latent_path = tbl0.rows[i].latent_path

C4_Witness ==
    /\ fillret = <<"ok">>
    /\ HasCol(tbl0, "latent_path")
    /\ \E i \in DOMAIN tbl0.rows :
         /\ ~IsMissing(tbl0.rows[i].latent_path)
         /\ Derived(i).status = "ok"
         /\ tbl.rows[i].latent_path # Str(Derived(i).val)
    /\ \E i \in DOMAIN tbl0.rows : tbl.rows[i].latent_path # tbl0.rows[i].latent_path

(***************************************************************************)
(* C5: the missing-set fill_latent computes is exactly the rows whose      *)
(* latent_path is unset or is a string that is empty once trimmed, and     *)
(* each of them, a whitespace-only one too, gets make_latent_path of its   *)
(* image_path.                                                             *)
(***************************************************************************)
C5_MissingSet ==
    fillret # <<>>
    => /\ DOMAIN mask = DOMAIN tbl0.rows
       /\ \A i \in DOMAIN tbl0.rows : mask[i] <=> IsMissing(PriorLatent(i))
       /\ Last(fillret) = "ok"
          => \A i \in DOMAIN tbl0.rows :
               IsMissing(PriorLatent(i))
               => /\ Derived(i).status = "ok"
                  /\ tbl.rows[i].latent_path = Str(Derived(i).val)

C5_Witness ==
    /\ fillret = <<"ok">>
    /\ HasCol(tbl0, "latent_path")
    /\ \E i \in DOMAIN tbl0.rows :
         /\ tbl0.rows[i].latent_path.kind = "str"
         /\ tbl0.rows[i].latent_path.chars # <<>>
         /\ mask[i]
         /\ tbl.rows[i].latent_path = Str(Derived(i).val)
    /\ \E i \in DOMAIN tbl0.rows : isna(tbl0.rows[i].latent_path) /\ mask[i]

(***************************************************************************)
(* C8: fill_latent is idempotent: applied to the result of a call that     *)
(* succeeded it succeeds, finds the missing-set empty and changes nothing. *)
(***************************************************************************)
C8_Idempotent ==
    (Len(fillret) >= 2 /\ fillret[Len(fillret) - 1] = "ok")
    => /\ Last(fillret) = "ok"
       /\ tbl = tbl0
       /\ \A i \in DOMAIN mask : ~mask[i]

C8_Witness ==
    /\ Len(fillret) = 2
    /\ fillret[1] = "ok"
    /\ \E i \in DOMAIN tbl.rows :
         /\ Derived(i).status = "ok"
         /\ tbl.rows[i].latent_path = Str(Derived(i).val)

(***************************************************************************)
(* C10: make_latent_path is applied only to the rows of the missing-set,   *)
(* so fill_latent succeeds if and only if every row of the missing-set has *)
(* an image_path that ends with the recognized marker.                     *)
(***************************************************************************)
C10_SucceedsIffMarkers ==
    (fillret # <<>> /\ HasCol(tbl0, "image_path"))
    => (Last(fillret) = "ok"
        <=> \A i \in DOMAIN tbl0.rows :
              IsMissing(PriorLatent(i))
              => /\ tbl0.rows[i].image_path.kind = "str"
                 /\ MarkerLen(tbl0.rows[i].image_path.chars) > 0)


(***************************************************************************)
(* Claims about main.                                                      *)
(***************************************************************************)
\* The table main read: the input file as it was when main started.
Loaded == fs0[args.inp][1]
Did(e) == e \in Range(events)

LoadedLatent(i) ==
    IF HasCol(Loaded, "latent_path") THEN Loaded.rows[i].latent_path ELSE NA

\* make_latent_path fails for a row of the missing-set of the table read.
SomeMissingRowFails ==
    \E i \in DOMAIN Loaded.rows :
       /\ IsMissing(LoadedLatent(i))
       /\ make_latent_path(Loaded.rows[i].image_path).status # "ok"

Lifecycle == <<"load", "check", "fill", "persist", "confirm">>

(***************************************************************************)
(* C6: if make_latent_path fails for a row of the missing-set, the failure *)
(* leaves fill_latent and main: no row's latent_path is filled, no file is *)
(* written (the input file stays as it was) and nothing is printed.        *)
(***************************************************************************)
C6_FailFast ==
    (Did("fill") /\ SomeMissingRowFails)
    => /\ pc = "raised"
       /\ status \in {"ValueError", "TypeError"}
       /\ exitcode = <<1>>
       /\ ~Did("persist") /\ ~Did("confirm")
       /\ fs = fs0
       /\ stdout = <<>>
       /\ Len(df[1].rows) = Len(Loaded.rows)
       /\ \A i \in DOMAIN Loaded.rows : df[1].rows[i].latent_path = LoadedLatent(i)

C6_Witness ==
    /\ pc = "raised"
    /\ status = "ValueError"
    /\ args.out = <<>>
    /\ \E i \in DOMAIN Loaded.rows :
         /\ IsMissing(LoadedLatent(i))
         /\ make_latent_path(Loaded.rows[i].image_path).status = "ok"
         /\ df[1].rows[i].latent_path = LoadedLatent(i)

(***************************************************************************)
(* C7: when the table read has no image_path column, main ends at once     *)
(* with a non-zero exit code and a diagnostic, before fill_latent is       *)
(* called: no file is written or changed and nothing is printed.           *)
(***************************************************************************)
C7_MissingColumnExits ==
    (Did("check") /\ ~HasCol(Loaded, "image_path"))
    => /\ pc = "exited"
       /\ status = "SystemExit"
       /\ exitcode # <<>> /\ exitcode[1] # 0
       /\ stderr = <<ColumnDiagnostic>>
       /\ events = <<"load", "check">>
       /\ df = <<Loaded>>
       /\ fs = fs0
       /\ stdout = <<>>

C7_Witness ==
    /\ pc = "exited"
    /\ ~HasCol(Loaded, "image_path")
    /\ Loaded.rows # <<>>
    /\ fs0["out.csv"] # <<>>

(***************************************************************************)
(* C9: in every run of main the steps come in the order load, column       *)
(* check, fill, persist, confirm; the output is written at most once, only *)
(* after the check and the fill succeeded, to the --out location or, when  *)
(* --out is not given, to the input location; the confirmation names that  *)
(* destination and is printed only after the write.                        *)
(***************************************************************************)
ClaimedDestination == IF args.out = <<>> THEN args.inp ELSE args.out[1]

LifecycleWith(dest) ==
    /\ Len(events) <= Len(Lifecycle)
    /\ events = SubSeq(Lifecycle, 1, Len(events))
    /\ ~Did("persist") => fs = fs0
    /\ Did("persist")
       => /\ out = <<dest>>
          /\ fill_latent(Loaded).status = "ok"
          /\ fs = [fs0 EXCEPT ![out[1]] = <<fill_latent(Loaded).df>>]
    /\ ~Did("confirm") => stdout = <<>>
    /\ Did("confirm") => stdout = <<dest>>

C9_Lifecycle == LifecycleWith(ClaimedDestination)

\* C9 as amended: the destination is the --out location when --out is given
\* and is not the empty string, and the input location otherwise.
AmendedDestination ==
    IF args.out # <<>> /\ args.out[1] # "" THEN args.out[1] ELSE args.inp

C9_LifecycleAmended == LifecycleWith(AmendedDestination)

C9_Witness ==
    /\ pc = "done"
    /\ args.out = <<"">>
    /\ stdout = <<args.inp>>
    /\ fs[args.inp] # fs0[args.inp]
    /\ fs["out.csv"] = fs0["out.csv"]

====
